---------------------------- MODULE Spec2Model ----------------------------
(***************************************************************************)
(* A model of src/graphs.py: the conditional HTTP cache                    *)
(* (fetch_with_cache), the change detector (compute_data_hash,             *)
(* has_data_changed), the row parsers (parse_payload_mass_text, the        *)
(* outcome gate of fetch_and_parse and fetch_and_parse_starship), the      *)
(* orbit classifier (categorize_starlink, clean_orbit_category) and the    *)
(* per-year cumulative series (module level code and                       *)
(* add_end_of_period_entries / plot_cumulative_payload_mass_to_orbit), and *)
(* the runs of main.                                                       *)
(*                                                                         *)
(* Each part has its own specification over the shared variables:          *)
(* SpecCache, SpecHash, SpecFingerprint, SpecMass, SpecRow, SpecOrbit,     *)
(* SpecSeries and SpecMain.  In each of them the other parts'              *)
(* variables stay at their idle values.                                    *)
(***************************************************************************)
EXTENDS Integers, Sequences, FiniteSets, TLC

VARIABLES
    cache_meta,      \* per URL: the file .cache/<key>.json
    cache_content,   \* per URL: the file .cache/<key>.html
    upstream,        \* per URL: the version of the resource the server holds
    call,            \* the last call of fetch_with_cache and what it did
    stored200,       \* history: per URL, the body of the latest HTTP 200 fetch
    fullSince,       \* history: per URL, HTTP 200 fetches since upstream changed
    bareSince,       \* history: of those, the ones whose response had no validator
    fetches,         \* per URL, the number of calls made (bounded)
    all_data,        \* the record collection of the current run
    hash_file,       \* the file .cache/data_hash.txt
    hcall,           \* the last call of has_data_changed and what it did
    fp,              \* two record collections and their fingerprints
    mtext,           \* a mass text and what parse_payload_mass_text gave for it
    row,             \* the cells of an accepted table row
    record,          \* the launch record made from the row
    ocall,           \* a payload, a raw orbit label and the category given
    now,             \* the date datetime.now() gives: <<year, month, day>>
    phase,           \* how far the module-level code and main have run
    df,              \* the DataFrame df (from line 630 on: df_filtered)
    year_series,     \* per plotted year, the points (DayOfYear, cumulative_mass)
    outputs,         \* the files of outputs/: the two SVGs and the CSV
    mrun             \* the current run of the program and how main ended

cacheVars == <<cache_meta, cache_content, upstream, call, stored200,
               fullSince, bareSince, fetches>>
dataVars == <<all_data>>
hashVars == <<hash_file, hcall>>
fpVars == <<fp>>
massVars == <<mtext>>
rowVars == <<row, record>>
orbitVars == <<ocall>>
seriesVars == <<now, phase, df, year_series>>
mainVars == <<outputs, mrun>>

vars == <<cacheVars, dataVars, hashVars, fpVars, massVars, rowVars, orbitVars,
          seriesVars, mainVars>>

\* What the actions of one part leave alone: the variables of the others.
notCacheVars ==
    <<dataVars, hashVars, fpVars, massVars, rowVars, orbitVars, seriesVars,
      mainVars>>
notHashVars ==
    <<cacheVars, fpVars, massVars, rowVars, orbitVars, seriesVars, mainVars>>
notFpVars ==
    <<cacheVars, dataVars, hashVars, massVars, rowVars, orbitVars, seriesVars,
      mainVars>>
notMassVars ==
    <<cacheVars, dataVars, hashVars, fpVars, rowVars, orbitVars, seriesVars,
      mainVars>>
notRowVars ==
    <<cacheVars, dataVars, hashVars, fpVars, massVars, orbitVars, seriesVars,
      mainVars>>
notOrbitVars ==
    <<cacheVars, dataVars, hashVars, fpVars, massVars, rowVars, seriesVars,
      mainVars>>
notSeriesVars ==
    <<cacheVars, hashVars, fpVars, massVars, rowVars, orbitVars, mainVars>>
\* main leaves alone all but all_data, data_hash.txt and the output files.
notMainVars ==
    <<cacheVars, hcall, fpVars, massVars, rowVars, orbitVars, seriesVars>>

-----------------------------------------------------------------------------
(***************************************************************************)
(* Part 0.  Python str values.  A str is a sequence of characters, each a  *)
(* one-character string; the en dash and the em dash are written "u2013"   *)
(* and "u2014", the newline "LF".                                          *)
(***************************************************************************)

\* ord(c) of the characters the model's texts use.
CodePoint ==
    "LF" :> 10 @@ " " :> 32 @@ "\"" :> 34 @@ "(" :> 40 @@ ")" :> 41 @@ "," :> 44 @@ "-" :> 45 @@
    "." :> 46 @@ "/" :> 47 @@ "0" :> 48 @@ "1" :> 49 @@ "2" :> 50 @@ "3" :> 51 @@
    "4" :> 52 @@ "5" :> 53 @@ "6" :> 54 @@ "7" :> 55 @@ "8" :> 56 @@ "9" :> 57 @@
    ":" :> 58 @@ "A" :> 65 @@ "B" :> 66 @@ "C" :> 67 @@ "D" :> 68 @@ "E" :> 69 @@
    "F" :> 70 @@ "G" :> 71 @@ "H" :> 72 @@ "I" :> 73 @@ "J" :> 74 @@ "K" :> 75 @@
    "L" :> 76 @@ "M" :> 77 @@ "N" :> 78 @@ "O" :> 79 @@ "P" :> 80 @@ "Q" :> 81 @@
    "R" :> 82 @@ "S" :> 83 @@ "T" :> 84 @@ "U" :> 85 @@ "V" :> 86 @@ "W" :> 87 @@
    "X" :> 88 @@ "Y" :> 89 @@ "Z" :> 90 @@ "[" :> 91 @@ "\\" :> 92 @@ "]" :> 93 @@
    "a" :> 97 @@ "b" :> 98 @@ "c" :> 99 @@ "d" :> 100 @@ "e" :> 101 @@ "f" :> 102 @@
    "g" :> 103 @@ "h" :> 104 @@ "i" :> 105 @@ "j" :> 106 @@ "k" :> 107 @@ "l" :> 108 @@
    "m" :> 109 @@ "n" :> 110 @@ "o" :> 111 @@ "p" :> 112 @@ "q" :> 113 @@ "r" :> 114 @@
    "s" :> 115 @@ "t" :> 116 @@ "u" :> 117 @@ "v" :> 118 @@ "w" :> 119 @@ "x" :> 120 @@
    "y" :> 121 @@ "z" :> 122 @@ "~" :> 126 @@ "u2013" :> 8211 @@ "u2014" :> 8212

Digit == {"0", "1", "2", "3", "4", "5", "6", "7", "8", "9"}
DigitValue(c) == CodePoint[c] - CodePoint["0"]
DigitChar(d) == CHOOSE c \in Digit : DigitValue(c) = d

\* s[i:j] of Python, with 1-based i and j inclusive.
Slice(s, i, j) == SubSeq(s, i, j)

\* sub in s, for str.
Contains(s, sub) ==
    \E i \in 1..(Len(s) - Len(sub) + 1) : Slice(s, i, i + Len(sub) - 1) = sub

\* str(n) for an int n >= 0.
RECURSIVE IntToStr(_)
IntToStr(n) ==
    IF n < 10 THEN <<DigitChar(n)>>
    ELSE IntToStr(n \div 10) \o <<DigitChar(n % 10)>>

\* int(s) for a non-empty str of ASCII digits.
RECURSIVE StrToInt(_)
StrToInt(s) ==
    IF Len(s) = 0 THEN 0
    ELSE 10 * StrToInt(Slice(s, 1, Len(s) - 1)) + DigitValue(s[Len(s)])

\* a < b for str: by code points, a proper prefix being smaller.
RECURSIVE StrLess(_, _)
StrLess(a, b) ==
    IF Len(b) = 0 THEN FALSE
    ELSE IF Len(a) = 0 THEN TRUE
    ELSE IF a[1] # b[1] THEN CodePoint[a[1]] < CodePoint[b[1]]
    ELSE StrLess(Tail(a), Tail(b))

-----------------------------------------------------------------------------
(***************************************************************************)
(* Part 1.  fetch_with_cache (src/graphs.py lines 37-89)                   *)
(***************************************************************************)

\* Bounds of the cache model.
MaxVersion == 2
MaxFetches == 3

\* Two of the entries of the list `urls`; get_cache_key gives each its own
\* pair of cache files.
urls == {"falcon", "starship"}

\* A key that is not in the dict cached_meta / a header the response lacks.
Absent == 0

\* A file that does not exist (os.path.exists is False), and a file holding d.
NoMetaFile == [exists |-> FALSE, etag |-> Absent, lm |-> Absent]
MetaFile(etag, lm) == [exists |-> TRUE, etag |-> etag, lm |-> lm]
NoContentFile == [exists |-> FALSE, data |-> <<>>]
ContentFile(d) == [exists |-> TRUE, data |-> d]

\* The body the server holds for version v of a resource.
Body(v) == <<v>>
\* The body of a response that is no HTTP 200: empty for 304, a page otherwise.
EmptyBody == <<>>
ErrorBody == <<0>>

\* The statuses a final response can carry.  requests follows 301/302 itself;
\* 300 is returned to the caller as it is.
Statuses == {200, 300, 304, 404, 500}

\* Lines 43-54: cached_meta is the metadata file's dict, or {} without file;
\* If-None-Match and If-Modified-Since are attached when the dict has
\* "etag" and "last-modified".
RequestHeaders(m) ==
    [inm |-> IF m.exists THEN m.etag ELSE Absent,
     ims |-> IF m.exists THEN m.lm ELSE Absent]

\* The server's side of requests.get (line 57): does the conditional request
\* name the version the server holds?  If-None-Match takes precedence over
\* If-Modified-Since (RFC 9110).
Revalidates(u, req) ==
    IF req.inm # Absent THEN req.inm = upstream[u]
    ELSE IF req.ims # Absent THEN req.ims >= upstream[u]
    ELSE FALSE

\* What requests.get (line 57, timeout=10) can give for the request: a
\* transport failure (it raises), an answer that is no 200/304, a 304 to a
\* conditional request that names the current version, or a 200 with the
\* current body and any subset of the validators ETag and Last-Modified.
Responses(u, req) ==
    { [kind |-> k, status |-> Absent, body |-> EmptyBody,
       etag |-> Absent, lm |-> Absent] : k \in {"timeout", "connection_error"} }
    \cup
    { [kind |-> "response", status |-> s, body |-> ErrorBody,
       etag |-> Absent, lm |-> Absent] : s \in Statuses \ {200, 304} }
    \cup
    (IF Revalidates(u, req)
     THEN { [kind |-> "response", status |-> 304, body |-> EmptyBody,
             etag |-> Absent, lm |-> Absent] }
     ELSE { [kind |-> "response", status |-> 200, body |-> Body(upstream[u]),
             etag |-> e, lm |-> l] :
              e \in {Absent, upstream[u]}, l \in {Absent, upstream[u]} })

\* Response.raise_for_status (line 88): raises for 4xx and 5xx only.
RaiseForStatus(status) == status >= 400 /\ status < 600

\* Line 60, mutated: a 304 answers with the response's own (empty) body.
NotModifiedBytes_ResponseBody(c, resp) == resp.body
\* Lines 60-62: the bytes returned on a 304 when the content file exists.
NotModifiedBytes(c, resp) == c.data

\* Lines 71-75, mutated: the validators of the response are not stored.
NewMeta_NoValidators(resp) == MetaFile(Absent, Absent)
\* Lines 71-75: the metadata written after a 200.
NewMeta(resp) == MetaFile(resp.etag, resp.lm)

\* Lines 37-89: the outcome of one call, from the two cache files and the
\* result of requests.get: what it returns or that it raises, and the files
\* after it.
FetchOutcome(m, c, resp) ==
    IF resp.kind # "response"
    THEN \* line 57: requests.get raises; nothing in fetch_with_cache catches it
         [outcome |-> "raise", bytes |-> EmptyBody, meta |-> m, content |-> c]
    ELSE IF resp.status = 304 /\ c.exists
    THEN \* lines 60-62
         [outcome |-> "return", bytes |-> NotModifiedBytes(c, resp),
          meta |-> m, content |-> c]
    ELSE IF resp.status = 200
    THEN \* lines 65-80
         [outcome |-> "return", bytes |-> resp.body,
          meta |-> NewMeta(resp), content |-> ContentFile(resp.body)]
    ELSE IF c.exists
    THEN \* lines 83-85
         [outcome |-> "return", bytes |-> c.data, meta |-> m, content |-> c]
    ELSE IF RaiseForStatus(resp.status)
    THEN \* line 88
         [outcome |-> "raise", bytes |-> EmptyBody, meta |-> m, content |-> c]
    ELSE \* line 89
         [outcome |-> "return", bytes |-> resp.body, meta |-> m, content |-> c]

NoCall ==
    [url |-> "none", kind |-> "none", status |-> Absent, req |-> RequestHeaders(NoMetaFile),
     outcome |-> "none", bytes |-> EmptyBody,
     pre_meta |-> NoMetaFile, pre_content |-> NoContentFile,
     pre_stored200 |-> NoContentFile]

IdleCache ==
    /\ cache_meta = [u \in urls |-> NoMetaFile]
    /\ cache_content = [u \in urls |-> NoContentFile]
    /\ upstream = [u \in urls |-> 1]
    /\ call = NoCall
    /\ stored200 = [u \in urls |-> NoContentFile]
    /\ fullSince = [u \in urls |-> 0]
    /\ bareSince = [u \in urls |-> 0]
    /\ fetches = [u \in urls |-> 0]

InitCache == IdleCache

\* One call fetch_with_cache(u, headers), lines 37-89.
FetchWithCache(u) ==
    /\ fetches[u] < MaxFetches
    /\ \E resp \in Responses(u, RequestHeaders(cache_meta[u])) :
         LET r == FetchOutcome(cache_meta[u], cache_content[u], resp)
             full == resp.kind = "response" /\ resp.status = 200
             bare == full /\ resp.etag = Absent /\ resp.lm = Absent
         IN /\ cache_meta' = [cache_meta EXCEPT ![u] = r.meta]
            /\ cache_content' = [cache_content EXCEPT ![u] = r.content]
            /\ call' = [url |-> u, kind |-> resp.kind, status |-> resp.status,
                        req |-> RequestHeaders(cache_meta[u]),
                        outcome |-> r.outcome, bytes |-> r.bytes,
                        pre_meta |-> cache_meta[u],
                        pre_content |-> cache_content[u],
                        pre_stored200 |-> stored200[u]]
            /\ stored200' = [stored200 EXCEPT
                               ![u] = IF full THEN ContentFile(resp.body) ELSE @]
            /\ fullSince' = [fullSince EXCEPT ![u] = IF full THEN @ + 1 ELSE @]
            /\ bareSince' = [bareSince EXCEPT ![u] = IF bare THEN @ + 1 ELSE @]
    /\ fetches' = [fetches EXCEPT ![u] = @ + 1]
    /\ UNCHANGED <<upstream, notCacheVars>>

\* The resource changes upstream: the server holds a new version.
UpstreamChange(u) ==
    /\ upstream[u] < MaxVersion
    /\ upstream' = [upstream EXCEPT ![u] = @ + 1]
    /\ fullSince' = [fullSince EXCEPT ![u] = 0]
    /\ bareSince' = [bareSince EXCEPT ![u] = 0]
    /\ fetches' = [fetches EXCEPT ![u] = 0]
    /\ UNCHANGED <<cache_meta, cache_content, call, stored200, notCacheVars>>

NextCache ==
    \/ \E u \in urls : FetchWithCache(u)
    \/ \E u \in urls : UpstreamChange(u)


-----------------------------------------------------------------------------
(***************************************************************************)
(* Part 2.  compute_data_hash and has_data_changed (lines 526-554)         *)
(***************************************************************************)

\* Bound: the number of records of a collection.
MaxRecords == 2

\* A record is the tuple (year, orbit, payload, payload_mass, datetime_launch,
\* vehicle) of lines 173 and 276; datetime_launch is <<year, month, day, hour,
\* minute>> (datetime.combine(date, time(hour, minute)), lines 131-140).
Rec(year, orbit, payload, mass, dt, vehicle) ==
    <<year, orbit, payload, mass, dt, vehicle>>

R_base == Rec(2018, <<"L", "E", "O">>, <<"D", "r", "a", "g", "o", "n">>, 100, <<2018, 1, 2, 0, 0>>, <<"F", "9">>)
R_year == Rec(2017, <<"L", "E", "O">>, <<"D", "r", "a", "g", "o", "n">>, 100, <<2018, 1, 2, 0, 0>>, <<"F", "9">>)
R_mass == Rec(2018, <<"L", "E", "O">>, <<"D", "r", "a", "g", "o", "n">>, 0, <<2018, 1, 2, 0, 0>>, <<"F", "9">>)
R_time == Rec(2018, <<"L", "E", "O">>, <<"D", "r", "a", "g", "o", "n">>, 100, <<2018, 1, 2, 0, 5>>, <<"F", "9">>)
\* Two records that differ in orbit, payload and vehicle, with texts that
\* hold quotes and commas.
R_quoteA == Rec(2018, <<"A", "\"", ",", " ", "\"", "B">>, <<"C">>, 100, <<2018, 1, 2, 0, 0>>, <<"F", "H">>)
R_quoteB == Rec(2018, <<"A">>, <<"B", "\"", ",", " ", "\"", "C">>, 100, <<2018, 1, 2, 0, 0>>, <<"F", "9">>)

SampleRecords == {R_base, R_year, R_mass, R_time, R_quoteA, R_quoteB}

\* The lists of at most MaxRecords records over a set of records.
ListsOver(records) ==
    UNION { [1..n -> records] : n \in 0..MaxRecords }

\* a < b for datetime (and for any two equally long sequences of int).
RECURSIVE IntSeqLess(_, _)
IntSeqLess(a, b) ==
    IF Len(a) = 0 \/ Len(b) = 0 THEN FALSE
    ELSE IF a[1] # b[1] THEN a[1] < b[1]
    ELSE IntSeqLess(Tail(a), Tail(b))

\* x < y for the values of field i of a record.
FieldLess(i, x, y) ==
    IF i \in {1, 4} THEN x < y
    ELSE IF i = 5 THEN IntSeqLess(x, y)
    ELSE StrLess(x, y)

\* a < b for tuples: the first differing field decides.
RECURSIVE TupleLessFrom(_, _, _)
TupleLessFrom(i, a, b) ==
    IF i > Len(a) THEN FALSE
    ELSE IF a[i] # b[i] THEN FieldLess(i, a[i], b[i])
    ELSE TupleLessFrom(i + 1, a, b)
TupleLess(a, b) == TupleLessFrom(1, a, b)

\* sorted(data): a stable sort with <.
RECURSIVE InsertSorted(_, _)
InsertSorted(x, sorted) ==
    IF Len(sorted) = 0 THEN <<x>>
    ELSE IF TupleLess(x, Head(sorted)) THEN <<x>> \o sorted
    ELSE <<Head(sorted)>> \o InsertSorted(x, Tail(sorted))
RECURSIVE SortedFrom(_, _)
SortedFrom(data, acc) ==
    IF Len(data) = 0 THEN acc
    ELSE SortedFrom(Tail(data), InsertSorted(Head(data), acc))
\* Line 529, mutated: the data is serialized in the order it has.
Sorted_Unsorted(data) == data
\* Line 529: sorted(data).
Sorted(data) == SortedFrom(data, <<>>)

\* str(n) padded with zeros to width w.
RECURSIVE Pad(_, _)
Pad(s, w) == IF Len(s) >= w THEN s ELSE Pad(<<"0">> \o s, w)

\* str(datetime): "YYYY-MM-DD HH:MM:SS" (json.dumps default=str, line 529).
DatetimeStr(dt) ==
    Pad(IntToStr(dt[1]), 4) \o <<"-">> \o Pad(IntToStr(dt[2]), 2) \o <<"-">>
    \o Pad(IntToStr(dt[3]), 2) \o <<" ">> \o Pad(IntToStr(dt[4]), 2) \o <<":">>
    \o Pad(IntToStr(dt[5]), 2) \o <<":", "0", "0">>

\* json.dumps of a str: quoted, with the quote and the backslash escaped and
\* (ensure_ascii) the two dashes written \uXXXX.
JsonEscape(c) ==
    IF c = "\"" THEN <<"\\", "\"">>
    ELSE IF c = "\\" THEN <<"\\", "\\">>
    ELSE IF c = "u2013" THEN <<"\\", "u", "2", "0", "1", "3">>
    ELSE IF c = "u2014" THEN <<"\\", "u", "2", "0", "1", "4">>
    ELSE <<c>>
RECURSIVE JsonEscapeAll(_)
JsonEscapeAll(s) ==
    IF Len(s) = 0 THEN <<>> ELSE JsonEscape(Head(s)) \o JsonEscapeAll(Tail(s))
JsonStr(s) == <<"\"">> \o JsonEscapeAll(s) \o <<"\"">>

\* json.dumps of one record: a tuple is written as an array.
JsonRecord(r) ==
    <<"[">> \o IntToStr(r[1]) \o <<",", " ">> \o JsonStr(r[2]) \o <<",", " ">>
    \o JsonStr(r[3]) \o <<",", " ">> \o IntToStr(r[4]) \o <<",", " ">>
    \o JsonStr(DatetimeStr(r[5])) \o <<",", " ">> \o JsonStr(r[6]) \o <<"]">>

RECURSIVE JsonItems(_)
JsonItems(list) ==
    IF Len(list) = 0 THEN <<>>
    ELSE IF Len(list) = 1 THEN JsonRecord(list[1])
    ELSE JsonRecord(list[1]) \o <<",", " ">> \o JsonItems(Tail(list))
\* json.dumps(list, sort_keys=True, default=str), line 529.
JsonDumps(list) == <<"[">> \o JsonItems(list) \o <<"]">>

\* hashlib.sha256(...).hexdigest(), taken to be collision-free: the digest
\* stands for the text it was computed from.
Sha256Hex(text) == <<"sha256", text>>

\* Lines 526-530.
compute_data_hash(data) == Sha256Hex(JsonDumps(Sorted(data)))

\* data_hash.txt: absent, or holding a digest.
NoHashFile == [exists |-> FALSE, data |-> Sha256Hex(<<>>)]
HashFile(h) == [exists |-> TRUE, data |-> h]

\* Lines 548-551, mutated: the changed fingerprint is not written.
HashFileAfterChange_Kept(file, new_hash) == file
\* Lines 548-551: the file after a call that found another fingerprint.
HashFileAfterChange(file, new_hash) == HashFile(new_hash)

\* Lines 533-554: the value has_data_changed returns and the file after it.
\* The file only ever holds a hexdigest written by lines 541 and 551, which
\* strip() (line 546) gives back as it is.
HasDataChangedOutcome(file, data) ==
    LET new_hash == compute_data_hash(data)
    IN  IF ~file.exists
        THEN [ret |-> TRUE, file |-> HashFile(new_hash)]
        ELSE IF file.data # new_hash
        THEN [ret |-> TRUE, file |-> HashFileAfterChange(file, new_hash)]
        ELSE [ret |-> FALSE, file |-> file]

\* The collections a run can have fetched in the model of has_data_changed.
RunRecords == {R_base, R_mass}

NoHashCall ==
    [n |-> 0, data |-> <<>>, ret |-> FALSE, pre_file |-> NoHashFile,
     prev_data |-> <<>>]

IdleData == all_data = <<>>

IdleHash ==
    /\ hash_file = NoHashFile
    /\ hcall = NoHashCall

InitHash ==
    /\ all_data \in ListsOver(RunRecords)
    /\ hash_file = NoHashFile
    /\ hcall = NoHashCall

\* A new run of the program: the module-level code (lines 376-380) builds
\* all_data again; the cache directory keeps data_hash.txt.
LoadData ==
    /\ \E d \in ListsOver(RunRecords) : d # all_data /\ all_data' = d
    /\ UNCHANGED <<hash_file, hcall, notHashVars>>

\* One call has_data_changed(all_data), lines 533-554.
HasDataChanged ==
    LET r == HasDataChangedOutcome(hash_file, all_data)
    IN  /\ hash_file' = r.file
        /\ hcall' = [n |-> IF hcall.n < 2 THEN hcall.n + 1 ELSE hcall.n,
                     data |-> all_data, ret |-> r.ret,
                     pre_file |-> hash_file, prev_data |-> hcall.data]
        /\ UNCHANGED <<all_data, notHashVars>>

NextHash == LoadData \/ HasDataChanged

\* The fingerprints of two collections.
IdleFp == fp = [a |-> <<>>, b |-> <<>>, done |-> FALSE,
                ha |-> Sha256Hex(<<>>), hb |-> Sha256Hex(<<>>)]

InitFp ==
    \E a \in ListsOver(SampleRecords), b \in ListsOver(SampleRecords) :
        fp = [a |-> a, b |-> b, done |-> FALSE,
              ha |-> Sha256Hex(<<>>), hb |-> Sha256Hex(<<>>)]

\* compute_data_hash is applied to both collections.
ComputeDataHash ==
    /\ ~fp.done
    /\ fp' = [fp EXCEPT !.done = TRUE,
                        !.ha = compute_data_hash(fp.a),
                        !.hb = compute_data_hash(fp.b)]
    /\ UNCHANGED notFpVars

NextFp == ComputeDataHash

-----------------------------------------------------------------------------
(***************************************************************************)
(* Part 3.  parse_payload_mass_text (lines 177-208) and the payload mass   *)
(* of a record (lines 144-167 and 259-268)                                 *)
(***************************************************************************)

\* Bounds: the length of the free mass texts, and the small range ends.
MaxTextLen == 3
MaxSmall == 3

Space == {" ", "LF"}
NumChars == Digit \cup {","}

\* The character with code point n.
CharOf(n) == CHOOSE c \in DOMAIN CodePoint : CodePoint[c] = n
\* str.lower() of one character and of a str.
LowerChar(c) ==
    IF CodePoint[c] >= CodePoint["A"] /\ CodePoint[c] <= CodePoint["Z"]
    THEN CharOf(CodePoint[c] - CodePoint["A"] + CodePoint["a"])
    ELSE c
Lower(s) == [i \in 1..Len(s) |-> LowerChar(s[i])]

\* str.strip().
RECURSIVE LStrip(_)
LStrip(s) == IF Len(s) > 0 /\ Head(s) \in Space THEN LStrip(Tail(s)) ELSE s
RECURSIVE RStrip(_)
RStrip(s) ==
    IF Len(s) > 0 /\ s[Len(s)] \in Space THEN RStrip(Slice(s, 1, Len(s) - 1))
    ELSE s
Strip(s) == RStrip(LStrip(s))

\* Line 193: en dash and em dash become the hyphen.
NormalizeDashes(s) ==
    [i \in 1..Len(s) |-> IF s[i] \in {"u2013", "u2014"} THEN "-" ELSE s[i]]

\* x.replace(",", "").
RemoveCommas(s) == SelectSeq(s, LAMBDA c : c # ",")

\* The first index from i on whose character is not in the class (a greedy
\* run of the regex engine); Len(s) + 1 when the run reaches the end.
RECURSIVE SkipRun(_, _, _)
SkipRun(s, i, class) ==
    IF i > Len(s) \/ s[i] \notin class THEN i ELSE SkipRun(s, i + 1, class)

NoMatch == [found |-> FALSE, a |-> <<>>, b |-> <<>>]

\* The match of (\d[\d,]*)\s*(?:-|to)\s*(\d[\d,]*), re.IGNORECASE, that
\* starts at index i (line 196).  Each run is greedy, and giving back part
\* of a run never lets the rest match, as the character after a shortened
\* run is still of the run's class.
MatchRangeAt(s, i) ==
    IF i > Len(s) \/ s[i] \notin Digit THEN NoMatch
    ELSE LET j == SkipRun(s, i + 1, NumChars)
             k == SkipRun(s, j, Space)
             sep == IF k <= Len(s) /\ s[k] = "-" THEN k + 1
                    ELSE IF k + 1 <= Len(s) /\ LowerChar(s[k]) = "t"
                                            /\ LowerChar(s[k + 1]) = "o"
                         THEN k + 2
                         ELSE Len(s) + 1
             m == SkipRun(s, sep, Space)
             n == SkipRun(s, m + 1, NumChars)
         IN  IF m > Len(s) \/ s[m] \notin Digit THEN NoMatch
             ELSE [found |-> TRUE, a |-> Slice(s, i, j - 1),
                   b |-> Slice(s, m, n - 1)]

\* re.search: the match at the leftmost index that has one.
RECURSIVE SearchRangeFrom(_, _)
SearchRangeFrom(s, i) ==
    IF i > Len(s) THEN NoMatch
    ELSE IF MatchRangeAt(s, i).found THEN MatchRangeAt(s, i)
    ELSE SearchRangeFrom(s, i + 1)
SearchRange(s) == SearchRangeFrom(s, 1)

\* re.search(r"(\d[\d,]*)", s), line 204: the run at the first digit.
RECURSIVE SearchSingleFrom(_, _)
SearchSingleFrom(s, i) ==
    IF i > Len(s) THEN NoMatch
    ELSE IF s[i] \in Digit
    THEN [found |-> TRUE,
          a |-> Slice(s, i, SkipRun(s, i + 1, NumChars) - 1), b |-> <<>>]
    ELSE SearchSingleFrom(s, i + 1)
SearchSingle(s) == SearchSingleFrom(s, 1)

\* Line 201, mutated: the mean is cut off instead of rounded.
RoundHalf_Floor(n) == n \div 2
\* int(round(n / 2)), line 201: Python 3 rounds a half to the even neighbour
\* (n / 2 is exact for the masses of the model).
RoundHalf(n) ==
    IF n % 2 = 0 THEN n \div 2
    ELSE IF (n \div 2) % 2 = 0 THEN n \div 2 ELSE (n \div 2) + 1

\* Lines 177-208.
parse_payload_mass_text(text) ==
    IF Len(text) = 0 THEN 0
    ELSE LET t == NormalizeDashes(Strip(text))
             range_match == SearchRange(t)
             single_match == SearchSingle(t)
         IN  IF range_match.found
             THEN RoundHalf(StrToInt(RemoveCommas(range_match.a))
                            + StrToInt(RemoveCommas(range_match.b)))
             ELSE IF single_match.found
             THEN StrToInt(RemoveCommas(single_match.a))
             ELSE 0

\* The match of ~?([\d,]+)\s*kg that starts at index i (line 160).
MatchKgAt(s, i) ==
    LET st == IF i <= Len(s) /\ s[i] = "~" THEN i + 1 ELSE i
        j == SkipRun(s, st, NumChars)
        k == SkipRun(s, j, Space)
    IN  IF j > st /\ k + 1 <= Len(s) /\ s[k] = "k" /\ s[k + 1] = "g"
        THEN [found |-> TRUE, a |-> Slice(s, st, j - 1), b |-> <<>>]
        ELSE NoMatch
RECURSIVE SearchKgFrom(_, _)
SearchKgFrom(s, i) ==
    IF i > Len(s) THEN NoMatch
    ELSE IF MatchKgAt(s, i).found THEN MatchKgAt(s, i)
    ELSE SearchKgFrom(s, i + 1)
SearchKg(s) == SearchKgFrom(s, 1)

\* Line 158 and line 267: "success" in launch_outcome.
IsSuccess(launch_outcome) == Contains(launch_outcome, <<"s", "u", "c", "c", "e", "s", "s">>)

\* Lines 263-268, mutated: the outcome does not gate the mass.
FalconMass_Ungated(payload_mass_text, launch_outcome) ==
    parse_payload_mass_text(payload_mass_text)
\* Lines 263-268: the payload mass of a Falcon row.
FalconMass(payload_mass_text, launch_outcome) ==
    IF ~IsSuccess(launch_outcome) THEN 0
    ELSE parse_payload_mass_text(payload_mass_text)

\* Lines 158-167: the payload mass of a Starship row; int("") raises
\* ValueError when the matched group holds commas only.
StarshipMass(payload_mass_text, launch_outcome) ==
    IF IsSuccess(launch_outcome)
    THEN LET mass_match == SearchKg(payload_mass_text)
         IN  IF mass_match.found
             THEN IF Len(RemoveCommas(mass_match.a)) = 0
                  THEN [raised |-> TRUE, payload_mass |-> 0]
                  ELSE [raised |-> FALSE,
                        payload_mass |-> StrToInt(RemoveCommas(mass_match.a))]
             ELSE [raised |-> FALSE, payload_mass |-> 0]
    ELSE [raised |-> FALSE, payload_mass |-> 0]

\* A number as the tables write it, with thousands separators.
RECURSIVE Thousands(_)
Thousands(n) ==
    IF n < 1000 THEN IntToStr(n)
    ELSE Thousands(n \div 1000) \o <<",">> \o Pad(IntToStr(n % 1000), 3)

\* The ends of the ranges of the model.
RangeEnds == (0..MaxSmall) \cup {999, 1000, 5000, 6000, 16001}
\* The ways the tables write a range between two numbers.
RangeSeparators ==
    {<<"-">>, <<"u2013">>, <<"u2014">>, <<" ", "-", " ">>,
     <<" ", "t", "o", " ">>, <<"T", "O">>}
\* What stands before and after the numbers of a mass cell.
MassPrefixes == {<<>>, <<"~">>, <<"c", "a", ".", " ">>}
MassSuffixes == {<<>>, <<" ", "k", "g">>, <<" ", "k", "g", "[", "5", "]">>}
RangeText(pre, a, sep, b, suf) ==
    pre \o Thousands(a) \o sep \o Thousands(b) \o suf

\* The free texts: every text of at most MaxTextLen of these characters.
FreeChars == {"1", "2", ",", " ", "-", "t", "o", "k"}
FreeTexts == UNION { [1..n -> FreeChars] : n \in 0..MaxTextLen }

IdleMass ==
    mtext = [text |-> <<>>, built |-> FALSE, a |-> 0, b |-> 0,
             done |-> FALSE, ret |-> 0]

InitMass ==
    \/ \E t \in FreeTexts :
         mtext = [text |-> t, built |-> FALSE, a |-> 0, b |-> 0,
                  done |-> FALSE, ret |-> 0]
    \/ \E a \in RangeEnds, b \in RangeEnds, sep \in RangeSeparators,
          pre \in MassPrefixes, suf \in MassSuffixes :
         mtext = [text |-> RangeText(pre, a, sep, b, suf), built |-> TRUE,
                  a |-> a, b |-> b, done |-> FALSE, ret |-> 0]

\* parse_payload_mass_text is applied to the text.
ParsePayloadMassText ==
    /\ ~mtext.done
    /\ mtext' = [mtext EXCEPT !.done = TRUE,
                              !.ret = parse_payload_mass_text(mtext.text)]
    /\ UNCHANGED notMassVars

NextMass == ParsePayloadMassText

\* The mass cells and outcome cells of the rows of the model.
RowMassTexts ==
    { <<>>, <<"u2014">>, <<"5", ",", "0", "0", "0", " ", "k", "g">>, <<"5", ",", "0", "0", "0", "u2013", "6", ",", "0", "0", "0", " ", "k", "g">>, <<"~", "1", "6", ",", "0", "0", "0", " ", "k", "g", " ", "(", "3", "5", ",", "0", "0", "0", " ", "l", "b", ")", "[", "5", "4", "]">>, <<"U", "n", "k", "n", "o", "w", "n">>, <<"5", "0", "0", "0", "-", "6", "0", "0", "0", " ", "k", "g">>, <<",", " ", "k", "g">>, <<"3", " ", "t", "o", " ", "4", " ", "k", "g">>, <<"1", "2", ",", "3", "4", "5", "k", "g">> }
RowOutcomes ==
    { <<>>, <<"S", "u", "c", "c", "e", "s", "s">>, <<"F", "a", "i", "l", "u", "r", "e">>, <<"P", "a", "r", "t", "i", "a", "l", " ", "f", "a", "i", "l", "u", "r", "e">>, <<"S", "U", "C", "C", "E", "S", "S">>, <<"S", "u", "c", "c", "e", "s", "s", "[", "1", "2", "]">>, <<"P", "l", "a", "n", "n", "e", "d">>, <<"U", "n", "s", "u", "c", "c", "e", "s", "s", "f", "u", "l">> }
Padding == {<<>>, <<" ">>}

IdleRow ==
    /\ row = [family |-> "none", mass |-> <<>>, outcome |-> <<>>]
    /\ record = [produced |-> FALSE, raised |-> FALSE, payload_mass |-> 0]

\* An accepted row: its cell count fits the family (lines 112 and 229) and
\* its date cell matched (lines 119-125 and 236-242).
InitRow ==
    /\ \E f \in {"Falcon", "Starship"}, m \in RowMassTexts, o \in RowOutcomes,
          pm \in Padding, po \in Padding :
         row = [family |-> f, mass |-> pm \o m \o pm, outcome |-> po \o o \o po]
    /\ record = [produced |-> FALSE, raised |-> FALSE, payload_mass |-> 0]

\* Lines 259-276: the record of a Falcon row.
ParseFalconRow ==
    /\ row.family = "Falcon"
    /\ ~record.produced /\ ~record.raised
    /\ record' = [produced |-> TRUE, raised |-> FALSE,
                  payload_mass |-> FalconMass(Strip(row.mass),
                                              Lower(Strip(row.outcome)))]
    /\ UNCHANGED <<row, notRowVars>>

\* Lines 142-173: the record of a Starship row, or the ValueError.
ParseStarshipRow ==
    /\ row.family = "Starship"
    /\ ~record.produced /\ ~record.raised
    /\ LET r == StarshipMass(Strip(row.mass), Lower(Strip(row.outcome)))
       IN  record' = [produced |-> ~r.raised, raised |-> r.raised,
                      payload_mass |-> r.payload_mass]
    /\ UNCHANGED <<row, notRowVars>>

NextRow == ParseFalconRow \/ ParseStarshipRow

-----------------------------------------------------------------------------
(***************************************************************************)
(* Part 4.  categorize_starlink and clean_orbit_category (lines 280-320)   *)
(***************************************************************************)

\* Bound: the length of the free orbit labels.
MaxLabelLen == 3

\* Lines 286-311: the dict orbit_mapping, as its (key, value) pairs.
orbit_mapping == {
    <<<<"B", "a", "l", "l", "i", "s", "t", "i", "c", " ", "l", "u", "n",
        "a", "r", " ", "t", "r", "a", "n", "s", "f", "e", "r", " ", "(",
        "B", "L", "T", ")">>,
      <<"B", "L", "T">>>>,
    <<<<"G", "E", "O">>,
      <<"G", "T", "O", "/", "G", "E", "O">>>>,
    <<<<"G", "T", "O">>,
      <<"G", "T", "O", "/", "G", "E", "O">>>>,
    <<<<"G", "T", "O", "[", "3", "3", "8", "]">>,
      <<"G", "T", "O", "/", "G", "E", "O">>>>,
    <<<<"G", "T", "O", "[", "3", "5", "6", "]">>,
      <<"G", "T", "O", "/", "G", "E", "O">>>>,
    <<<<"G", "T", "O", "[", "3", "9", "9", "]">>,
      <<"G", "T", "O", "/", "G", "E", "O">>>>,
    <<<<"H", "E", "O", " ", "f", "o", "r", " ", "P", "/", "2", " ", "o",
        "r", "b", "i", "t">>,
      <<"O", "t", "h", "e", "r">>>>,
    <<<<"H", "e", "l", "i", "o", "c", "e", "n", "t", "r", "i", "c">>,
      <<"H", "e", "l", "i", "o", "c", "e", "n", "t", "r", "i", "c">>>>,
    <<<<"H", "e", "l", "i", "o", "c", "e", "n", "t", "r", "i", "c", "0",
        ".", "9", "9", "-", "1", ".", "6", "7", " ", "A", "U", "[", "2",
        "5", "1", "]", "(", "c", "l", "o", "s", "e", " ", "t", "o", " ",
        "M", "a", "r", "s", " ", "t", "r", "a", "n", "s", "f", "e", "r",
        " ", "o", "r", "b", "i", "t", ")">>,
      <<"H", "e", "l", "i", "o", "c", "e", "n", "t", "r", "i", "c">>>>,
    <<<<"L", "E", "O">>,
      <<"L", "E", "O", " ", "(", "O", "t", "h", "e", "r", ")">>>>,
    <<<<"L", "E", "O", " ", "(", "I", "S", "S", ")">>,
      <<"L", "E", "O", " ", "(", "O", "t", "h", "e", "r", ")">>>>,
    <<<<"L", "E", "O", " ", "(", "S", "t", "a", "r", "l", "i", "n", "k", ")">>,
      <<"L", "E", "O", " ", "(", "S", "t", "a", "r", "l", "i", "n", "k", ")">>>>,
    <<<<"L", "E", "O", " ", "/", " ", "M", "E", "O">>,
      <<"O", "t", "h", "e", "r">>>>,
    <<<<"L", "E", "O", "[", "1", "7", "2", "]">>,
      <<"L", "E", "O", " ", "(", "O", "t", "h", "e", "r", ")">>>>,
    <<<<"M", "E", "O">>,
      <<"M", "E", "O">>>>,
    <<<<"P", "o", "l", "a", "r", " ", "L", "E", "O">>,
      <<"L", "E", "O", " ", "(", "O", "t", "h", "e", "r", ")">>>>,
    <<<<"P", "o", "l", "a", "r", " ", "o", "r", "b", "i", "t", " ", "L",
        "E", "O">>,
      <<"L", "E", "O", " ", "(", "O", "t", "h", "e", "r", ")">>>>,
    <<<<"R", "e", "t", "r", "o", "g", "r", "a", "d", "e", " ", "L", "E", "O">>,
      <<"L", "E", "O", " ", "(", "O", "t", "h", "e", "r", ")">>>>,
    <<<<"S", "S", "O">>,
      <<"S", "S", "O", " ", "(", "O", "t", "h", "e", "r", ")">>>>,
    <<<<"S", "S", "O", " ", "(", "S", "t", "a", "r", "l", "i", "n", "k", ")">>,
      <<"S", "S", "O", " ", "(", "S", "t", "a", "r", "l", "i", "n", "k", ")">>>>,
    <<<<"S", "u", "n", "-", "E", "a", "r", "t", "h", " ", "L", "1", " ",
        "i", "n", "s", "e", "r", "t", "i", "o", "n">>,
      <<"O", "t", "h", "e", "r">>>>,
    <<<<"S", "u", "n", "-", "E", "a", "r", "t", "h", " ", "L", "2", " ",
        "i", "n", "j", "e", "c", "t", "i", "o", "n">>,
      <<"O", "t", "h", "e", "r">>>>,
    <<<<"T", "r", "a", "n", "s", "a", "t", "m", "o", "s", "p", "h", "e",
        "r", "i", "c">>,
      <<"T", "r", "a", "n", "s", "a", "t", "m", "o", "s", "p", "h", "e", "r", "i", "c">>>>,
    <<<<"u2014">>,
      <<"T", "r", "a", "n", "s", "a", "t", "m", "o", "s", "p", "h", "e", "r", "i", "c">>>> }

\* Lines 404-415: the categories, in legend order.
ordered_columns == <<
    <<"L", "E", "O", " ", "(", "S", "t", "a", "r", "l", "i", "n", "k", ")">>,
    <<"L", "E", "O", " ", "(", "O", "t", "h", "e", "r", ")">>,
    <<"S", "S", "O", " ", "(", "S", "t", "a", "r", "l", "i", "n", "k", ")">>,
    <<"S", "S", "O", " ", "(", "O", "t", "h", "e", "r", ")">>,
    <<"M", "E", "O">>,
    <<"G", "T", "O", "/", "G", "E", "O">>,
    <<"B", "L", "T">>,
    <<"H", "e", "l", "i", "o", "c", "e", "n", "t", "r", "i", "c">>,
    <<"T", "r", "a", "n", "s", "a", "t", "m", "o", "s", "p", "h", "e", "r", "i", "c">>,
    <<"O", "t", "h", "e", "r">> >>

Other == <<"O", "t", "h", "e", "r">>

\* The index of the first "]" from i on that "." can reach (no newline in
\* between), or 0.
RECURSIVE ClosingBracket(_, _)
ClosingBracket(s, i) ==
    IF i > Len(s) \/ s[i] = "LF" THEN 0
    ELSE IF s[i] = "]" THEN i
    ELSE ClosingBracket(s, i + 1)

\* re.sub(r"\[.*?\]", "", orbit), line 282: from the left, every "[" with a
\* "]" after it is removed up to the first such "]".
RECURSIVE StripFootnotesFrom(_, _)
StripFootnotesFrom(s, i) ==
    IF i > Len(s) THEN <<>>
    ELSE IF s[i] = "[" /\ ClosingBracket(s, i + 1) # 0
    THEN StripFootnotesFrom(s, ClosingBracket(s, i + 1) + 1)
    ELSE <<s[i]>> \o StripFootnotesFrom(s, i + 1)
StripFootnotes(s) == StripFootnotesFrom(s, 1)

\* Line 313, mutated: a label that is no key is returned as it is.
MappingGet_KeepLabel(orbit_cleaned) ==
    IF \E p \in orbit_mapping : p[1] = orbit_cleaned
    THEN (CHOOSE p \in orbit_mapping : p[1] = orbit_cleaned)[2]
    ELSE orbit_cleaned
\* Line 313: orbit_mapping.get(orbit_cleaned, "Other").
MappingGet(orbit_cleaned) ==
    IF \E p \in orbit_mapping : p[1] = orbit_cleaned
    THEN (CHOOSE p \in orbit_mapping : p[1] = orbit_cleaned)[2]
    ELSE Other

\* Lines 280-313.
clean_orbit_category(orbit) == MappingGet(Strip(StripFootnotes(orbit)))

\* Lines 316-320.
categorize_starlink(payload, orbit) ==
    IF Contains(payload, <<"S", "t", "a", "r", "l", "i", "n", "k">>) THEN orbit \o <<" ", "(", "S", "t", "a", "r", "l", "i", "n", "k", ")">> ELSE orbit

\* The payloads and raw orbit labels of the model: every key of the table,
\* bare, with a footnote and in blanks; labels the table does not know; and
\* every text of at most MaxLabelLen of a few characters.
Payloads == { <<>>, <<"S", "t", "a", "r", "l", "i", "n", "k", " ", "4", "-", "1">>, <<"D", "r", "a", "g", "o", "n">>, <<"s", "t", "a", "r", "l", "i", "n", "k">> }
TableKeys == { p[1] : p \in orbit_mapping }
LabelChars == {"L", "E", "O", "[", "]", " "}
FreeLabels == UNION { [1..n -> LabelChars] : n \in 0..MaxLabelLen }
RawOrbits ==
    TableKeys
    \cup { k \o <<"[", "1", "2", "]">> : k \in TableKeys }
    \cup { <<" ">> \o k \o <<"LF">> : k \in TableKeys }
    \cup { <<"P", "o", "l", "a", "r", " ", "r", "e", "t", "r", "o", "g", "r", "a", "d", "e", " ", "o", "r", "b", "i", "t", " ", "X", "Y", "Z">>, <<"L", "E", "O", "[", "a", "LF", "b", "]">>, <<"G", "T", "O", " ", "[", "1", "]", " ", "[", "2", "]">> }
    \cup FreeLabels

IdleOrbit ==
    ocall = [payload |-> <<>>, orbit |-> <<>>, done |-> FALSE, category |-> <<>>]

InitOrbit ==
    \E p \in Payloads, o \in RawOrbits :
        ocall = [payload |-> p, orbit |-> o, done |-> FALSE, category |-> <<>>]

\* Lines 386-387 (and 569-570): the category of a record.
ClassifyOrbit ==
    /\ ~ocall.done
    /\ ocall' = [ocall EXCEPT
                   !.done = TRUE,
                   !.category = clean_orbit_category(
                                    categorize_starlink(ocall.payload, ocall.orbit))]
    /\ UNCHANGED notOrbitVars

NextOrbit == ClassifyOrbit

-----------------------------------------------------------------------------
(***************************************************************************)
(* Part 5.  The per-year cumulative series: module-level code (lines       *)
(* 599-630), add_end_of_period_entries (lines 323-358) and                 *)
(* plot_cumulative_payload_mass_to_orbit (lines 466-485)                   *)
(***************************************************************************)

\* Bound: the number of launch records of a run.
MaxLaunches == 2

\* calendar.isleap.
IsLeap(y) == (y % 4 = 0 /\ y % 100 # 0) \/ y % 400 = 0
\* The days of the months of year y.
MonthDays(y) ==
    <<31, IF IsLeap(y) THEN 29 ELSE 28, 31, 30, 31, 30, 31, 31, 30, 31, 30, 31>>
RECURSIVE DaysBefore(_, _)
DaysBefore(y, month) ==
    IF month = 1 THEN 0
    ELSE DaysBefore(y, month - 1) + MonthDays(y)[month - 1]
\* timetuple().tm_yday / .dt.dayofyear of a datetime <<y, month, day, h, m>>.
DayOfYear(dt) == DaysBefore(dt[1], dt[2]) + dt[3]
\* datetime(y, 1, 1) + timedelta(days=n - 1), lines 338-340.
RECURSIVE DateOfDayFrom(_, _, _)
DateOfDayFrom(y, month, n) ==
    IF month < 12 /\ n > MonthDays(y)[month]
    THEN DateOfDayFrom(y, month + 1, n - MonthDays(y)[month])
    ELSE <<y, month, n, 0, 0>>
DateOfDay(y, n) == DateOfDayFrom(y, 1, n)

\* A row of the DataFrame.  Payload tells the rows apart: a launch has its
\* payload text, an initial entry has "" (line 614), an end-of-period entry
\* has no value in that column.
DfRow(year, payload, mass, dt, cumulative) ==
    [Year |-> year, Payload |-> payload, PayloadMass |-> mass,
     DateTime |-> dt, CumulativePayloadMass |-> cumulative]
InitialPayload == <<>>
EndPayload == <<"N", "a", "N">>

\* Lines 382-384: the DataFrame of all_data, in its order.
FromRecords(data) ==
    [i \in 1..Len(data) |->
        DfRow(data[i][1], data[i][3], data[i][4], data[i][5], 0)]

\* s without its element i.
RemoveAt(s, i) == Slice(s, 1, i - 1) \o Slice(s, i + 1, Len(s))

\* DataFrame.sort_values(by="DateTime") (lines 358, 483 and 599).  Its
\* default kind is quicksort, which is not stable: rows of one DateTime can
\* come out in any order.  The set of the orders it can give.
RECURSIVE SortValues(_)
SortValues(rows) ==
    IF Len(rows) = 0 THEN {<<>>}
    ELSE UNION { { <<rows[i]>> \o rest : rest \in SortValues(RemoveAt(rows, i)) } :
                 i \in { k \in 1..Len(rows) :
                           \A j \in 1..Len(rows) :
                              ~IntSeqLess(rows[j].DateTime, rows[k].DateTime) } }

\* The sum of PayloadMass over the rows of rows[1..i] that have the year of
\* rows[i]: groupby("Year")["PayloadMass"] cumsum (lines 600-602), and, on
\* the rows of one year, cumsum (line 485).
RECURSIVE CumsumAt(_, _, _)
CumsumAt(rows, i, j) ==
    IF j = 0 THEN 0
    ELSE CumsumAt(rows, i, j - 1)
         + (IF rows[j].Year = rows[i].Year THEN rows[j].PayloadMass ELSE 0)
WithCumsum(rows) ==
    [i \in 1..Len(rows) |->
        [rows[i] EXCEPT !.CumulativePayloadMass = CumsumAt(rows, i, i)]]

\* Series.unique(): the years of the rows in the order they first appear.
RECURSIVE UniqueYears(_)
UniqueYears(rows) ==
    IF Len(rows) = 0 THEN <<>>
    ELSE LET before == UniqueYears(Slice(rows, 1, Len(rows) - 1))
             y == rows[Len(rows)].Year
         IN  IF \E i \in 1..Len(before) : before[i] = y THEN before
             ELSE before \o <<y>>

\* The first year that gets the two synthetic entries and is plotted.
FirstPlottedYear == 2017

\* Line 609.
GetsInitialEntry(year) == year >= FirstPlottedYear

\* Lines 605-623: the initial entries, one per year from 2017 on.
InitialEntries(rows) ==
    LET years == SelectSeq(UniqueYears(rows), GetsInitialEntry)
    IN  [i \in 1..Len(years) |->
            DfRow(years[i], InitialPayload, 0, <<years[i], 1, 1, 0, 0>>, 0)]

\* The rows of one year, in their order.
RowsOfYear(rows, year) == SelectSeq(rows, LAMBDA r : r.Year = year)

\* Lines 328-353: the end-of-period entries, one per year of the frame.
EndOfPeriodEntries(rows, today) ==
    LET years == UniqueYears(rows)
        current_year == today[1]
        current_day_of_year == DayOfYear(today)
    IN  [i \in 1..Len(years) |->
            LET of_year == RowsOfYear(rows, years[i])
                last_entry_for_year == of_year[Len(of_year)]
                period_end_date ==
                    IF years[i] = current_year
                    THEN DateOfDay(years[i], current_day_of_year)
                    ELSE <<years[i], 12, 31, 0, 0>>
            IN  DfRow(years[i], EndPayload, 0, period_end_date,
                      last_entry_for_year.CumulativePayloadMass)]

\* Lines 323-358: the frames add_end_of_period_entries can return.
add_end_of_period_entries(rows, today) ==
    SortValues(rows \o EndOfPeriodEntries(rows, today))

\* Lines 482-485: the points plotted for the rows of one year, given in the
\* order the sort of line 483 left them in.
PlottedPoints(group_data) ==
    [i \in 1..Len(group_data) |->
        [DayOfYear |-> DayOfYear(group_data[i].DateTime),
         cumulative_mass |-> CumsumAt(group_data, i, i),
         Payload |-> group_data[i].Payload]]

\* The launch records of the model: in 2016 and 2017, on January 1,
\* January 2 and December 31, at 00:00 and 01:00, of mass 0 and 5.
SeriesDays == {<<1, 1>>, <<1, 2>>, <<12, 31>>}
SeriesRecords ==
    { Rec(y, <<"L", "E", "O">>, <<"D", "r", "a", "g", "o", "n">>, m, <<y, d[1], d[2], h, 0>>, <<"F", "9">>) :
        y \in {2016, 2017}, d \in SeriesDays, h \in {0, 1}, m \in {0, 5} }
LaunchLists == UNION { [1..n -> SeriesRecords] : n \in 1..MaxLaunches }
\* The days the program runs on.
Todays == {<<2017, 1, 2, 0, 0>>, <<2018, 1, 2, 0, 0>>}

IdleSeries ==
    /\ now = <<0, 1, 1, 0, 0>>
    /\ phase = "idle"
    /\ df = <<>>
    /\ year_series = <<>>

\* Lines 376-384: all_data as fetched, and the DataFrame made of it.
InitSeries ==
    /\ all_data \in LaunchLists
    /\ now \in Todays
    /\ phase = "loaded"
    /\ df = FromRecords(all_data)
    /\ year_series = <<>>

\* Lines 599-602: df is sorted by DateTime and gets the per-year running sum.
SortAndCumsum ==
    /\ phase = "loaded"
    /\ \E sorted \in SortValues(df) : df' = WithCumsum(sorted)
    /\ phase' = "summed"
    /\ UNCHANGED <<all_data, now, year_series, notSeriesVars>>

\* Lines 605-630: the initial entries are put before the rows of df, and
\* df_filtered keeps the rows of the years from 2017 on.
AddInitialEntries ==
    /\ phase = "summed"
    /\ df' = SelectSeq(InitialEntries(df) \o df,
                       LAMBDA r : r.Year >= FirstPlottedYear)
    /\ phase' = "filtered"
    /\ UNCHANGED <<all_data, now, year_series, notSeriesVars>>

\* Lines 466-485: plot_cumulative_payload_mass_to_orbit(df_filtered) adds the
\* end-of-period entries and plots, for every year of the extended frame,
\* the rows of the year sorted by DateTime with their running sum.
PlotCumulative ==
    /\ phase = "filtered"
    /\ \E df_extended \in add_end_of_period_entries(df, now) :
         LET years == UniqueYears(df_extended)
         IN  \E groups \in
                 [ {years[i] : i \in 1..Len(years)} ->
                     UNION { SortValues(RowsOfYear(df_extended, years[i])) :
                             i \in 1..Len(years) } ] :
                /\ \A y \in DOMAIN groups :
                      groups[y] \in SortValues(RowsOfYear(df_extended, y))
                /\ year_series' = [y \in DOMAIN groups |-> PlottedPoints(groups[y])]
    /\ phase' = "plotted"
    /\ UNCHANGED <<all_data, now, df, notSeriesVars>>

NextSeries == SortAndCumsum \/ AddInitialEntries \/ PlotCumulative

-----------------------------------------------------------------------------
(***************************************************************************)
(* Part 6.  The runs of the program: the module-level code builds all_data *)
(* (lines 376-380) and main (lines 633-647) checks for a change, plots     *)
(* and writes the files of outputs/.                                       *)
(***************************************************************************)

\* Bound: the number of versions of the upstream launch tables.
MaxDataVersions == 2

\* The records of version v of the tables: one launch for each of the ten
\* categories; the versions differ in the mass of the first launch.
CompleteData(v) ==
    <<
       Rec(2024, <<"L", "E", "O">>,
           <<"S", "t", "a", "r", "l", "i", "n", "k", " ", "1">>, 100 * v,
           <<2024, 1, 1, 0, 0>>, <<"F", "9">>),
       Rec(2024, <<"L", "E", "O">>,
           <<"D", "r", "a", "g", "o", "n">>, 100,
           <<2024, 1, 2, 0, 0>>, <<"F", "9">>),
       Rec(2024, <<"S", "S", "O">>,
           <<"S", "t", "a", "r", "l", "i", "n", "k", " ", "2">>, 100,
           <<2024, 1, 3, 0, 0>>, <<"F", "9">>),
       Rec(2024, <<"S", "S", "O">>,
           <<"D", "r", "a", "g", "o", "n">>, 100,
           <<2024, 1, 4, 0, 0>>, <<"F", "9">>),
       Rec(2024, <<"M", "E", "O">>,
           <<"G", "P", "S">>, 100,
           <<2024, 1, 5, 0, 0>>, <<"F", "9">>),
       Rec(2024, <<"G", "T", "O">>,
           <<"S", "E", "S">>, 100,
           <<2024, 1, 6, 0, 0>>, <<"F", "9">>),
       Rec(2024, <<"B", "a", "l", "l", "i", "s", "t", "i", "c", " ", "l", "u", "n", "a", "r", " ", "t", "r", "a", "n", "s", "f", "e", "r", " ", "(", "B", "L", "T", ")">>,
           <<"I", "M">>, 100,
           <<2024, 1, 7, 0, 0>>, <<"F", "9">>),
       Rec(2024, <<"H", "e", "l", "i", "o", "c", "e", "n", "t", "r", "i", "c">>,
           <<"P", "s", "y", "c", "h", "e">>, 100,
           <<2024, 1, 8, 0, 0>>, <<"F", "9">>),
       Rec(2024, <<"S", "u", "n", "-", "E", "a", "r", "t", "h", " ", "L", "1", " ", "i", "n", "s", "e", "r", "t", "i", "o", "n">>,
           <<"D", "S", "C", "O", "V", "R">>, 100,
           <<2024, 1, 9, 0, 0>>, <<"F", "9">>),
       Rec(2024, <<"T", "r", "a", "n", "s", "a", "t", "m", "o", "s", "p", "h", "e", "r", "i", "c">>,
           <<"F", "l", "i", "g", "h", "t", " ", "4">>, 100,
           <<2024, 1, 10, 0, 0>>, <<"S", "t", "a", "r", "s", "h", "i", "p">>)
    >>
\* Version v when the Starship page gives no row.
FalconOnlyData(v) == Slice(CompleteData(v), 1, Len(CompleteData(v)) - 1)
MainData ==
    { CompleteData(v) : v \in 1..MaxDataVersions }
        \cup { FalconOnlyData(v) : v \in 1..MaxDataVersions }

\* Lines 386-387: the Orbit column of df.
OrbitColumn(data) ==
    { clean_orbit_category(categorize_starlink(data[i][3], data[i][2])) :
        i \in 1..Len(data) }
\* Lines 427-429: the pivot has one column per value of the Orbit column, and
\* [ordered_columns] raises KeyError when one of its labels is no column.
MissingColumns(data) ==
    { ordered_columns[i] : i \in 1..Len(ordered_columns) } \ OrbitColumn(data)

\* A file of outputs/: whether it exists, and the fingerprint of the records
\* it was written from.
NoOutputFile == [exists |-> FALSE, from |-> Sha256Hex(<<>>)]
OutputFile(data) == [exists |-> TRUE, from |-> compute_data_hash(data)]
NoOutputs == [svg |-> NoOutputFile, csv |-> NoOutputFile]

\* Where a write to outputs/ can fail with OSError: nowhere, in save_plots
\* (lines 518-523) or in save_launches_csv (line 593).
WriteFailures == {"none", "save_plots", "save_launches_csv"}

\* Line 636: main asks has_data_changed only when output is set.
ChangeCheck(output, file, data) ==
    IF output THEN HasDataChangedOutcome(file, data)
    ELSE [ret |-> TRUE, file |-> file]

\* Lines 633-647: how main(output) ends and what it leaves on disk.
MainOutcome(output, fails, file, outs, data) ==
    LET check == ChangeCheck(output, file, data)
    IN  IF ~check.ret
        THEN [ended |-> "skipped", file |-> check.file, outs |-> outs]
        ELSE IF MissingColumns(data) # {}
        THEN [ended |-> "KeyError", file |-> check.file, outs |-> outs]
        ELSE IF ~output
        THEN [ended |-> "shown", file |-> check.file, outs |-> outs]
        ELSE IF fails = "save_plots"
        THEN [ended |-> "OSError", file |-> check.file, outs |-> outs]
        ELSE IF fails = "save_launches_csv"
        THEN [ended |-> "OSError", file |-> check.file,
              outs |-> [outs EXCEPT !.svg = OutputFile(data)]]
        ELSE [ended |-> "updated", file |-> check.file,
              outs |-> [svg |-> OutputFile(data), csv |-> OutputFile(data)]]

NoRun == [at |-> "none", output |-> FALSE, ended |-> "none"]

IdleMain ==
    /\ outputs = NoOutputs
    /\ mrun = NoRun

\* The first run in a fresh checkout: lines 19-20 make the two directories,
\* lines 376-380 build all_data.
InitMain ==
    /\ all_data \in MainData
    /\ hash_file = NoHashFile
    /\ hcall = NoHashCall
    /\ outputs = NoOutputs
    /\ mrun = [at |-> "main", output |-> FALSE, ended |-> "none"]

\* The program is started again: lines 376-380 build all_data from the
\* tables as they are then; the files of .cache/ and outputs/ stay.
StartRun ==
    /\ mrun.at = "exit"
    /\ all_data' \in MainData
    /\ mrun' = [at |-> "main", output |-> FALSE, ended |-> "none"]
    /\ UNCHANGED <<hash_file, outputs, notMainVars>>

\* Lines 650-658 and 633-647: main(args.output).
Main ==
    /\ mrun.at = "main"
    /\ \E output \in BOOLEAN, fails \in WriteFailures :
         LET r == MainOutcome(output, fails, hash_file, outputs, all_data)
         IN  /\ hash_file' = r.file
             /\ outputs' = r.outs
             /\ mrun' = [at |-> "exit", output |-> output, ended |-> r.ended]
    /\ UNCHANGED <<all_data, notMainVars>>

NextMain == StartRun \/ Main

-----------------------------------------------------------------------------
(***************************************************************************)
(* Specifications.                                                         *)
(***************************************************************************)

\* Every part but the named one is idle.
IdleExcept(part) ==
    /\ part # "cache" => IdleCache
    /\ part \notin {"hash", "series", "main"} => IdleData
    /\ part # "hash" => IdleHash
    /\ part # "fingerprint" => IdleFp
    /\ part # "mass" => IdleMass
    /\ part # "row" => IdleRow
    /\ part # "orbit" => IdleOrbit
    /\ part # "series" => IdleSeries
    /\ part # "main" => IdleMain

CacheInit == InitCache /\ IdleExcept("cache")
SpecCache == CacheInit /\ [][NextCache]_vars

HashInit == InitHash /\ IdleExcept("hash")
SpecHash == HashInit /\ [][NextHash]_vars

FingerprintInit == InitFp /\ IdleExcept("fingerprint")
SpecFingerprint == FingerprintInit /\ [][NextFp]_vars

MassInit == InitMass /\ IdleExcept("mass")
SpecMass == MassInit /\ [][NextMass]_vars

RowInit == InitRow /\ IdleExcept("row")
SpecRow == RowInit /\ [][NextRow]_vars

OrbitInit == InitOrbit /\ IdleExcept("orbit")
SpecOrbit == OrbitInit /\ [][NextOrbit]_vars

SeriesInit == InitSeries /\ IdleExcept("series")
SpecSeries == SeriesInit /\ [][NextSeries]_vars

MainInit == InitMain /\ IdleExcept("main")
SpecMain == MainInit /\ [][NextMain]_vars

-----------------------------------------------------------------------------
(***************************************************************************)
(* Claims about fetch_with_cache, checked under SpecCache.                 *)
(***************************************************************************)

Called == call.url \in urls
Failed == call.kind # "response"
FilesKept ==
    /\ cache_content[call.url] = call.pre_content
    /\ cache_meta[call.url] = call.pre_meta

\* C1: a fetch that receives HTTP 304 after an earlier HTTP 200 fetch of the
\* same URL returns exactly the body that 200 fetch stored, and leaves the
\* stored content and metadata as they were.
C1_NotModifiedReturnsStored ==
    (Called /\ ~Failed /\ call.status = 304 /\ call.pre_stored200.exists)
        => /\ call.outcome = "return"
           /\ call.bytes = call.pre_stored200.data
           /\ FilesKept

\* C1's case: a 304 answered from a body stored by an earlier 200.
C1_Witness ==
    /\ Called /\ ~Failed /\ call.status = 304
    /\ call.pre_stored200.exists
    /\ call.bytes = Body(upstream[call.url])

\* C2: with cached content, a fetch that ends in a status other than 200/304
\* or in a transport failure returns the cached bytes instead of raising and
\* leaves the cache entry unchanged.
C2_StaleOnError ==
    (Called /\ call.pre_content.exists
            /\ (Failed \/ call.status \notin {200, 304}))
        => /\ call.outcome = "return"
           /\ call.bytes = call.pre_content.data
           /\ FilesKept

\* C3: without cached content, a fetch whose status is not 200, or whose
\* request fails in transport, never returns bytes: it raises, and no cache
\* entry is created.
C3_NoCacheFailurePropagates ==
    (Called /\ ~call.pre_content.exists
            /\ (Failed \/ call.status # 200))
        => /\ call.outcome = "raise"
           /\ ~cache_content[call.url].exists
           /\ ~cache_meta[call.url].exists

\* C4 as stated: while the upstream resource does not change, only the first
\* fetch transfers the full body (HTTP 200).
C4_OneTransferPerVersion == \A u \in urls : fullSince[u] <= 1

\* C4 as amended: every fetch sends the validators the metadata file holds,
\* and while the upstream resource does not change a full body is transferred
\* again only after a 200 response that carried neither ETag nor
\* Last-Modified.
C4_RetransferOnlyWithoutValidators ==
    /\ \A u \in urls : fullSince[u] <= 1 + bareSince[u]
    /\ Called =>
         /\ call.req.inm = (IF call.pre_meta.exists THEN call.pre_meta.etag ELSE Absent)
         /\ call.req.ims = (IF call.pre_meta.exists THEN call.pre_meta.lm ELSE Absent)

\* C4's case: after one full transfer with validators, a later fetch of the
\* unchanged resource was conditional and was answered 304.
C4_Witness ==
    /\ Called /\ ~Failed /\ call.status = 304
    /\ call.req.inm # Absent
    /\ fullSince[call.url] = 1 /\ bareSince[call.url] = 0
    /\ fetches[call.url] >= 2

-----------------------------------------------------------------------------
(***************************************************************************)
(* Claims about the change detector, checked under SpecHash and            *)
(* SpecFingerprint.                                                        *)
(***************************************************************************)

\* The number of times record r occurs in the list.
Occurrences(list, r) == Cardinality({i \in 1..Len(list) : list[i] = r})
\* One list is a reordering of the other: they are equal as multisets.
IsReordering(a, b) ==
    /\ Len(a) = Len(b)
    /\ \A i \in 1..Len(a) : Occurrences(a, a[i]) = Occurrences(b, a[i])

\* C5: has_data_changed(records) returns True exactly when no fingerprint is
\* persisted or the persisted one differs from compute_data_hash(records);
\* after the call the persisted fingerprint is compute_data_hash(records); a
\* second consecutive call with the same records returns False.
C5_HasDataChanged ==
    hcall.n > 0 =>
        /\ hcall.ret = (\/ ~hcall.pre_file.exists
                        \/ hcall.pre_file.data # compute_data_hash(hcall.data))
        /\ hash_file.exists
        /\ hash_file.data = compute_data_hash(hcall.data)
        /\ (hcall.n >= 2 /\ IsReordering(hcall.prev_data, hcall.data))
               => ~hcall.ret

\* C5's case: a call that found another fingerprint persisted and replaced it.
C5_Witness ==
    /\ hcall.n >= 2
    /\ hcall.ret
    /\ hcall.pre_file.exists
    /\ hash_file # hcall.pre_file

\* C6: two collections have the same fingerprint exactly when one is a
\* reordering of the other (the hash taken as collision-free).
C6_FingerprintOfMultiset ==
    fp.done => ((fp.ha = fp.hb) <=> IsReordering(fp.a, fp.b))

\* C6's case: two different orderings of the same records, one fingerprint.
C6_Witness ==
    /\ fp.done
    /\ fp.a # fp.b
    /\ IsReordering(fp.a, fp.b)
    /\ fp.ha = fp.hb

-----------------------------------------------------------------------------
(***************************************************************************)
(* Claims about the parsers, checked under SpecRow and SpecMass.           *)
(***************************************************************************)

\* C7: a row of either family whose lowercased outcome text does not contain
\* "success" gives a record (it never raises) of payload mass 0, whatever its
\* mass cell holds; and every record has a payload mass >= 0.
C7_OutcomeGatesMass ==
    /\ record.produced => record.payload_mass >= 0
    /\ (~Contains(Lower(row.outcome), <<"s", "u", "c", "c", "e", "s", "s">>)
        /\ (record.produced \/ record.raised))
           => record.produced /\ record.payload_mass = 0

\* C7's case: a failed Falcon launch whose mass cell holds a mass.
C7_Witness ==
    /\ record.produced
    /\ row.family = "Falcon"
    /\ row.outcome = <<"F", "a", "i", "l", "u", "r", "e">>
    /\ row.mass = <<"5", ",", "0", "0", "0", " ", "k", "g">>
    /\ record.payload_mass = 0

\* The integer a numeral with thousands separators stands for.
Numeral(x) == StrToInt(RemoveCommas(x))
\* x is a numeral: a digit, then digits and commas.
IsNumeral(x) ==
    /\ Len(x) >= 1
    /\ x[1] \in Digit
    /\ \A i \in 1..Len(x) : x[i] \in NumChars
\* x joins the two ends of a range: a hyphen or the word "to", in blanks.
IsRangeJoin(x) ==
    /\ \A i \in 1..Len(x) : x[i] \in Space \cup {"-", "t", "T", "o", "O"}
    /\ Lower(SelectSeq(x, LAMBDA c : c \notin Space)) \in {<<"-">>, <<"t", "o">>}
    /\ \E i \in 1..Len(x) : \A j \in 1..Len(x) :
          x[j] \notin Space => j \in {i, i + 1}
\* The explicit ranges of t: <<i, j, k, l>> with t[i..j] and t[k..l] numerals
\* and the join between them.
Ranges(t) ==
    { q \in (1..Len(t)) \X (1..Len(t)) \X (1..Len(t)) \X (1..Len(t)) :
        /\ q[1] <= q[2] /\ q[2] < q[3] /\ q[3] <= q[4]
        /\ IsNumeral(Slice(t, q[1], q[2]))
        /\ IsRangeJoin(Slice(t, q[2] + 1, q[3] - 1))
        /\ IsNumeral(Slice(t, q[3], q[4])) }
\* The leftmost range, with its second numeral taken whole.
FirstRanges(t) ==
    { q \in Ranges(t) : \A p \in Ranges(t) :
        q[1] < p[1] \/ (q[1] = p[1] /\ q[4] >= p[4]) }
\* The numerals of t that start at its first digit.
FirstNumerals(t) ==
    { q \in (1..Len(t)) \X (1..Len(t)) :
        /\ q[1] <= q[2]
        /\ IsNumeral(Slice(t, q[1], q[2]))
        /\ \A i \in 1..(q[1] - 1) : t[i] \notin Digit
        /\ (q[2] = Len(t) \/ t[q[2] + 1] \notin NumChars) }
\* r is the integer nearest to n / 2, the even one of the two when n is odd.
IsRoundedHalf(r, n) ==
    /\ 2 * r - n \in {-1, 0, 1}
    /\ (2 * r # n => r % 2 = 0)

-----------------------------------------------------------------------------
(***************************************************************************)
(* Claims about the orbit classifier, checked under SpecOrbit.             *)
(***************************************************************************)

Categories == { ordered_columns[i] : i \in 1..Len(ordered_columns) }
\* The label has no footnote bracket and no blank at either end.
IsPlain(label) ==
    /\ \A i \in 1..Len(label) : label[i] \notin {"[", "]"}
    /\ Len(label) > 0 => (label[1] \notin Space /\ label[Len(label)] \notin Space)

\* C9: for every payload and raw orbit the classifier gives one of the 10
\* categories, and "Other" for a label that is not in the table.
C9_ClassifierTotal ==
    ocall.done =>
        /\ Cardinality(Categories) = 10
        /\ ocall.category \in Categories
        /\ LET label == IF Contains(ocall.payload, <<"S", "t", "a", "r", "l", "i", "n", "k">>)
                        THEN ocall.orbit \o <<" ", "(", "S", "t", "a", "r", "l", "i", "n", "k", ")">>
                        ELSE ocall.orbit
           IN  (IsPlain(label) /\ label \notin TableKeys)
                   => ocall.category = Other

\* C9's case: a label the table does not know was classified.
C9_Witness ==
    /\ ocall.done
    /\ ocall.orbit = <<"P", "o", "l", "a", "r", " ", "r", "e", "t", "r", "o", "g", "r", "a", "d", "e", " ", "o", "r", "b", "i", "t", " ", "X", "Y", "Z">>
    /\ ocall.category = Other

\* The category the table gives for one of its keys.
TableValue(key) == (CHOOSE p \in orbit_mapping : p[1] = key)[2]

\* C13: for every raw label that is a key of the table, the keys with a
\* bracketed footnote marker included, clean_orbit_category gives the
\* category the table has for that key.
C13_TableKeysKeepCategory ==
    (/\ ocall.done
     /\ ~Contains(ocall.payload, <<"S", "t", "a", "r", "l", "i", "n", "k">>)
     /\ ocall.orbit \in TableKeys)
        => ocall.category = TableValue(ocall.orbit)

-----------------------------------------------------------------------------
(***************************************************************************)
(* Claims about the cumulative series, checked under SpecSeries.           *)
(***************************************************************************)

\* C10: for every year of the record collection, the cumulative values of
\* the year's series, in timestamp order, never decrease, and the first
\* point's value is 0.  (Stated of the years that have a series: line 630
\* drops the years before 2017.)
C10_SeriesStartsAtZero ==
    phase = "plotted" =>
        \A k \in 1..Len(all_data) :
            LET y == all_data[k][1]
            IN  y \in DOMAIN year_series =>
                    LET points == year_series[y]
                    IN  /\ Len(points) > 0
                        /\ points[1].cumulative_mass = 0
                        /\ \A i \in 1..(Len(points) - 1) :
                              points[i].cumulative_mass
                                  <= points[i + 1].cumulative_mass

\* The sum of the masses of the records of year y.
RECURSIVE YearTotalFrom(_, _, _)
YearTotalFrom(data, y, n) ==
    IF n = 0 THEN 0
    ELSE YearTotalFrom(data, y, n - 1)
         + (IF data[n][1] = y THEN data[n][4] ELSE 0)
YearTotal(data, y) == YearTotalFrom(data, y, Len(data))
\* The mass point i adds to the series: its step over the point before it.
AddedMass(points, i) ==
    points[i].cumulative_mass
        - (IF i = 1 THEN 0 ELSE points[i - 1].cumulative_mass)
StartAnchors(points) ==
    { i \in 1..Len(points) : points[i].Payload = InitialPayload }
EndAnchors(points) ==
    { i \in 1..Len(points) : points[i].Payload = EndPayload }

\* C11: every year from 2017 on that has a record gets a series with exactly
\* one start anchor, on January 1 with mass 0 and cumulative value 0, and
\* exactly one end anchor, of mass 0, whose cumulative value is the sum of
\* the year's record masses, on December 31 when the year is not the current
\* one and on the current day of the year when it is; no point after the end
\* anchor has another cumulative value.  A year before 2017 gets no anchor.
C11_Anchors ==
    phase = "plotted" =>
        \A k \in 1..Len(all_data) :
            LET y == all_data[k][1]
            IN  IF y < FirstPlottedYear
                THEN y \notin DOMAIN year_series
                ELSE /\ y \in DOMAIN year_series
                     /\ LET points == year_series[y]
                        IN  /\ Cardinality(StartAnchors(points)) = 1
                            /\ \A i \in StartAnchors(points) :
                                  /\ points[i].DayOfYear = 1
                                  /\ AddedMass(points, i) = 0
                                  /\ points[i].cumulative_mass = 0
                            /\ Cardinality(EndAnchors(points)) = 1
                            /\ \A i \in EndAnchors(points) :
                                  /\ AddedMass(points, i) = 0
                                  /\ points[i].cumulative_mass
                                         = YearTotal(all_data, y)
                                  /\ points[i].DayOfYear =
                                         IF y = now[1] THEN DayOfYear(now)
                                         ELSE DayOfYear(<<y, 12, 31, 0, 0>>)
                                  /\ \A j \in (i + 1)..Len(points) :
                                        points[j].cumulative_mass
                                            = points[i].cumulative_mass

-----------------------------------------------------------------------------
(***************************************************************************)
(* Claims about the runs of main, checked under SpecMain.                  *)
(***************************************************************************)

\* The file was written from records of the fingerprint of all_data.
IsCurrent(file) == file.exists /\ file.from = compute_data_hash(all_data)

\* C12: whenever a run of main(output=True) finds no change and skips the
\* regeneration, the SVGs and the CSV on disk were written by an earlier run
\* from records with the fingerprint of the current records.
C12_SkipMeansOutputsCurrent ==
    (mrun.at = "exit" /\ mrun.output /\ mrun.ended = "skipped")
        => (IsCurrent(outputs.svg) /\ IsCurrent(outputs.csv))

=============================================================================
